---------------------------- MODULE Spec2Model ----------------------------
(***************************************************************************)
(* A model of src/ffts.cpp: the FFTW bindings of ravetools.  Every entry   *)
(* point is a straight-line routine: map the effort code, optionally       *)
(* allocate a scratch buffer, create a plan, copy the input, execute,      *)
(* (for cfft_r2c) mirror the Hermitian half, destroy the plan, free.       *)
(*                                                                         *)
(* A call is modelled statement by statement (pc), so that the order of    *)
(* the steps and the buffers each step is handed are observable.           *)
(*                                                                         *)
(* FFTW itself is outside the repository.  What the model keeps of it is   *)
(* its documented contract: a planner run with a flag other than           *)
(* FFTW_ESTIMATE may overwrite the input array it is given; an execution   *)
(* with FFTW_DESTROY_INPUT may overwrite its input array; the output is a  *)
(* deterministic function (Bin) of the input elements the plan reads.      *)
(* Buffers are sequences (index j here is C index j-1).  NULL is <<>>.     *)
(***************************************************************************)
EXTENDS Integers, Sequences, FiniteSets

\* ------------------------------------------------------------- bounds
MaxN == 3
MaxM == 2
MaxDim == 2
MaxCode == 3
MaxFlag == 2

Lengths == 1..MaxN
Batches == 1..MaxM
Extents == 1..MaxDim
EffortCodes == (0 - MaxCode)..MaxCode
Flags == (0 - 1)..MaxFlag
Vals == 0..1

\* One array element (a double, or an fftw_complex copied as a whole) is one
\* integer.  The contents an array of len elements may hold, whether the
\* caller's values, fresh memory or what the library left: a + b*j.
Ramp(len, a, b) == [j \in 1..len |-> a + b * (j - 1)]

Buffers(len) == {Ramp(len, a, b) : a \in Vals, b \in Vals}

\* --------------------------------------------------------- FFTW names
FFTW_ESTIMATE == "FFTW_ESTIMATE"
FFTW_MEASURE == "FFTW_MEASURE"
FFTW_PATIENT == "FFTW_PATIENT"
FFTW_EXHAUSTIVE == "FFTW_EXHAUSTIVE"
FFTW_FORWARD == "FFTW_FORWARD"
FFTW_BACKWARD == "FFTW_BACKWARD"
NULL == <<>>
NoPlan == [in |-> "none", kind |-> "none", howmany |-> 0, idist |-> 0, odist |-> 0,
           inPer |-> 0, outPer |-> 0, sign |-> "none", effort |-> "none"]

VARIABLES
  pc,            \* the statement the running call is at; "idle" between calls
  fn,            \* the entry point being run
  dims, m,       \* the extents (dims[1] is *n of the 1-D forms) and the batch count
  inverse, fftwplanopt, retHermConj,   \* the integer flags handed in
  data, res,     \* the caller's input and output arrays
  nc, sign, effort, data_copy, p, i,   \* the locals of the routine
  orig,          \* history: the caller's input as it was at entry
  trace,         \* history: the library and libc calls made, with the buffer handed
  execIn,        \* history: the elements the plan read at fftw_execute
  execOut,       \* history: the output array as fftw_execute left it
  allocFailed,   \* history: malloc returned NULL in this call
  rd, wr,        \* history: elements memcpy read from data and wrote to data_copy
  scratchLen,    \* history: elements malloc'ed for data_copy
  created, destroyed, allocs, frees,   \* history: per call counts
  livePlans, liveBufs                  \* plans and scratch buffers alive in the process

args == <<fn, dims, m, inverse, fftwplanopt, retHermConj>>
locals == <<nc, sign, effort, data_copy, p, i>>
hist == <<orig, trace, execIn, execOut, allocFailed, rd, wr, scratchLen,
          created, destroyed, allocs, frees>>
vars == <<pc, args, data, res, locals, hist, livePlans, liveBufs>>

\* ------------------------------------------------------------ helpers
RECURSIVE Prod(_)
Prod(s) == IF s = <<>> THEN 1 ELSE Head(s) * Prod(Tail(s))

IsPrefix(s, t) == Len(s) <= Len(t) /\ SubSeq(t, 1, Len(s)) = s

HalfPlusOne(n) == n \div 2 + 1

fftw_efforts_lt(fftwplanopt_) ==
  IF fftwplanopt_ < 0 THEN FFTW_ESTIMATE
  ELSE IF fftwplanopt_ = 1 THEN FFTW_MEASURE
  ELSE IF fftwplanopt_ = 2 THEN FFTW_PATIENT
  ELSE FFTW_EXHAUSTIVE

fftw_efforts(fftwplanopt_) ==
  IF fftwplanopt_ <= 0 THEN FFTW_ESTIMATE
  ELSE IF fftwplanopt_ = 1 THEN FFTW_MEASURE
  ELSE IF fftwplanopt_ = 2 THEN FFTW_PATIENT
  ELSE FFTW_EXHAUSTIVE

SelectSign_nonzero(inverse_) ==
  IF inverse_ # 0 THEN FFTW_BACKWARD ELSE FFTW_FORWARD

\* if(*inverse == 1) sign = FFTW_BACKWARD; else sign = FFTW_FORWARD;
SelectSign(inverse_) ==
  IF inverse_ = 1 THEN FFTW_BACKWARD ELSE FFTW_FORWARD

EffortFns == {"cfft_r2c", "cmvfft_r2c", "cmvfft_c2r", "cmvfft_c2c"}
InverseFns == {"cfft_c2c", "cmvfft_c2c", "cfft_c2c_2d", "cfft_c2c_3d", "cfft_c2c_xd"}
BatchFns == {"cmvfft_r2c", "cmvfft_c2r", "cmvfft_c2c"}
AllFns == EffortFns \cup InverseFns \cup
          {"cfft_c2r", "cfft_r2c_2d", "cfft_r2c_3d"}

Kind(f) ==
  IF f \in {"cfft_r2c", "cmvfft_r2c", "cfft_r2c_2d", "cfft_r2c_3d"} THEN "r2c"
  ELSE IF f \in {"cfft_c2r", "cmvfft_c2r"} THEN "c2r"
  ELSE "c2c"

\* The last extent of a real-to-complex output is halved (FFTW's layout).
HalfLast(ds) == Prod(SubSeq(ds, 1, Len(ds) - 1)) * HalfPlusOne(ds[Len(ds)])

\* Elements one signal of the plan reads, and writes.
InPer(f, ds) == IF Kind(f) = "c2r" THEN HalfLast(ds) ELSE Prod(ds)

OutPer(f, ds) == IF Kind(f) = "r2c" THEN HalfLast(ds) ELSE Prod(ds)

\* The caller's arrays, as the interface documents their sizes.
InLen(f, ds, mm) == InPer(f, ds) * mm

OutLen(f, ds, mm, herm) ==
  IF f = "cfft_r2c" /\ herm # 0 THEN ds[1] ELSE OutPer(f, ds) * mm

Zero(f) == IF Kind(f) = "c2r" THEN 0 ELSE <<0, 0>>

\* ------------------------------------------------- the per-routine sizes
\* malloc(*n * sizeof(double)) in cfft_r2c; malloc(*n * *m * sizeof(..)) in the
\* batched forms.  In elements.
MallocCount(f, n, mm) == IF f = "cfft_r2c" THEN n ELSE n * mm

\* The third argument of memcpy, in elements: *n in cfft_r2c, *n * *m in
\* cmvfft_r2c, and *n in cmvfft_c2r and cmvfft_c2c.
MemcpyCount(f, n, mm) == IF f = "cmvfft_r2c" THEN n * mm ELSE n

PlanBuffer_data(eff) == "data"

\* The array handed to the planner: data under FFTW_ESTIMATE, data_copy otherwise.
PlanBuffer(eff) == IF eff = FFTW_ESTIMATE THEN "data" ELSE "data_copy"

\* The plan the routine asks for: fftw_plan_dft_r2c_1d, fftw_plan_many_dft_r2c
\* (howmany = *m, idist = *n, odist = nc), fftw_plan_many_dft_c2r (idist = nc,
\* odist = *n), fftw_plan_many_dft (idist = odist = *n), and the single-shot
\* 1-D, 2-D, 3-D and N-D plans.
PlanOf(f, ds, mm, buf, sg, eff) ==
  [in |-> buf, kind |-> Kind(f),
   howmany |-> IF f \in BatchFns THEN mm ELSE 1,
   idist |-> InPer(f, ds), odist |-> OutPer(f, ds),
   inPer |-> InPer(f, ds), outPer |-> OutPer(f, ds),
   sign |-> IF Kind(f) = "r2c" THEN FFTW_FORWARD
            ELSE IF Kind(f) = "c2r" THEN FFTW_BACKWARD ELSE sg,
   effort |-> eff]

Successor_copyFirst(at, eff, f) ==
  CASE at = "entry" -> IF eff = FFTW_ESTIMATE THEN "plan" ELSE "malloc"
    [] at = "malloc" -> "memcpy"
    [] at = "memcpy" -> "plan"
    [] at = "plan" -> "execute"
    [] at = "execute" -> IF f = "cfft_r2c" THEN "herm" ELSE "destroy"
    [] at = "herm" -> "destroy"
    [] at = "destroy" -> IF f \in EffortFns THEN "free" ELSE "return"
    [] OTHER -> "return"

\* The statement that follows statement `at` in routine f.
Successor(at, eff, f) ==
  CASE at = "entry" -> IF eff = FFTW_ESTIMATE THEN "plan" ELSE "malloc"
    [] at = "malloc" -> "plan"
    [] at = "plan" -> IF eff = FFTW_ESTIMATE THEN "execute" ELSE "memcpy"
    [] at = "memcpy" -> "execute"
    [] at = "execute" -> IF f = "cfft_r2c" THEN "herm" ELSE "destroy"
    [] at = "herm" -> "destroy"
    [] at = "destroy" -> IF f \in EffortFns THEN "free" ELSE "return"
    [] OTHER -> "return"

MirrorIndex_off(n, i_) == n - i_ - 1

\* resptr2 = res + (*n - i)
MirrorIndex(n, i_) == n - i_

\* **resptr1 = **resptr2; *(*resptr1 + 1) = - *(*resptr2 + 1);
Conj(z) == <<z[1], 0 - z[2]>>

NeedsFree_never(dc) == FALSE

\* if(data_copy != NULL)
NeedsFree(dc) == dc # NULL

\* ------------------------------------------------ the native transform
\* Bin k of the transform of the elements x, for a transform of N points: a
\* fixed integer function of x standing for FFTW's arithmetic.
RECURSIVE Acc(_, _, _, _, _)
Acc(x, k, N, j, w) ==
  IF j > Len(x) THEN 0
  ELSE x[j] * (IF w THEN 1 - (((j - 1) * k) % N) ELSE ((j - 1) * k) % N)
       + Acc(x, k, N, j + 1, w)

Bin(x, k, N, kind, sg) ==
  IF kind = "c2r" THEN Acc(x, k, N, 1, TRUE)
  ELSE <<Acc(x, k, N, 1, TRUE),
         (IF sg = FFTW_BACKWARD THEN 1 ELSE 0 - 1) * Acc(x, k, N, 1, FALSE)>>

\* The elements of array buf the plan q reads: inPer elements of each of the
\* howmany signals, idist apart.
PlanReads(buf, q) ==
  [j \in 1..(q.howmany * q.inPer) |->
     buf[((j - 1) \div q.inPer) * q.idist + ((j - 1) % q.inPer) + 1]]

\* The output array after executing q on buf: outPer bins of each signal,
\* odist apart; the other elements keep their values.
PlanWrites(buf, out, q, N) ==
  [j \in 1..Len(out) |->
     LET s == (j - 1) \div q.odist
         k == (j - 1) % q.odist
     IN IF s < q.howmany /\ k < q.outPer
        THEN Bin(SubSeq(buf, s * q.idist + 1, s * q.idist + q.inPer),
                 k, N, q.kind, q.sign)
        ELSE out[j]]

\* --------------------------------------------------------------- Init
Init ==
  /\ pc = "idle"
  /\ fn = "none" /\ dims = <<>> /\ m = 0
  /\ inverse = 0 /\ fftwplanopt = 0 /\ retHermConj = 0
  /\ data = <<>> /\ res = <<>>
  /\ nc = 0 /\ sign = "none" /\ effort = "none"
  /\ data_copy = NULL /\ p = NoPlan /\ i = 0
  /\ orig = <<>> /\ trace = <<>> /\ execIn = <<>> /\ execOut = <<>>
  /\ allocFailed = FALSE /\ rd = 0 /\ wr = 0 /\ scratchLen = 0
  /\ created = 0 /\ destroyed = 0 /\ allocs = 0 /\ frees = 0
  /\ livePlans = 0 /\ liveBufs = 0

\* ------------------------------------------------- entering a routine
\* The declarations and the statements before the plan is made: nc, sign
\* (the routines that take *inverse), effort (the routines that take
\* *fftwplanopt; the others pass FFTW_ESTIMATE itself), data_copy = NULL.
Enter(f, ds, mm, inv, opt, herm, dat) ==
  /\ pc = "idle"
  /\ fn' = f /\ dims' = ds /\ m' = mm
  /\ inverse' = inv /\ fftwplanopt' = opt /\ retHermConj' = herm
  /\ data' = dat /\ orig' = dat
  /\ res' = [j \in 1..OutLen(f, ds, mm, herm) |-> Zero(f)]
  /\ nc' = IF f \in EffortFns THEN HalfPlusOne(ds[1]) ELSE 0
  /\ sign' = IF f \in InverseFns THEN SelectSign(inv) ELSE "none"
  /\ effort' = IF f \in EffortFns THEN fftw_efforts(opt) ELSE FFTW_ESTIMATE
  /\ data_copy' = NULL /\ p' = NoPlan /\ i' = 0
  /\ pc' = Successor("entry", effort', f)
  /\ trace' = <<>> /\ execIn' = <<>> /\ execOut' = <<>>
  /\ allocFailed' = FALSE /\ rd' = 0 /\ wr' = 0 /\ scratchLen' = 0
  /\ created' = 0 /\ destroyed' = 0 /\ allocs' = 0 /\ frees' = 0
  /\ UNCHANGED <<livePlans, liveBufs>>

cfft_r2c ==
  \E n \in Lengths, herm \in Flags, opt \in EffortCodes :
    \E dat \in Buffers(InLen("cfft_r2c", <<n>>, 1)) :
      Enter("cfft_r2c", <<n>>, 1, 0, opt, herm, dat)

cfft_c2r ==
  \E n \in Lengths :
    \E dat \in Buffers(InLen("cfft_c2r", <<n>>, 1)) :
      Enter("cfft_c2r", <<n>>, 1, 0, 0, 0, dat)

cfft_c2c ==
  \E n \in Lengths, inv \in Flags :
    \E dat \in Buffers(InLen("cfft_c2c", <<n>>, 1)) :
      Enter("cfft_c2c", <<n>>, 1, inv, 0, 0, dat)

cmvfft_r2c ==
  \E n \in Lengths, mm \in Batches, opt \in EffortCodes :
    \E dat \in Buffers(InLen("cmvfft_r2c", <<n>>, mm)) :
      Enter("cmvfft_r2c", <<n>>, mm, 0, opt, 0, dat)

cmvfft_c2r ==
  \E n \in Lengths, mm \in Batches, opt \in EffortCodes :
    \E dat \in Buffers(InLen("cmvfft_c2r", <<n>>, mm)) :
      Enter("cmvfft_c2r", <<n>>, mm, 0, opt, 0, dat)

cmvfft_c2c ==
  \E n \in Lengths, mm \in Batches, inv \in Flags, opt \in EffortCodes :
    \E dat \in Buffers(InLen("cmvfft_c2c", <<n>>, mm)) :
      Enter("cmvfft_c2c", <<n>>, mm, inv, opt, 0, dat)

cfft_r2c_2d ==
  \E nx \in Extents, ny \in Extents :
    \E dat \in Buffers(InLen("cfft_r2c_2d", <<nx, ny>>, 1)) :
      Enter("cfft_r2c_2d", <<nx, ny>>, 1, 0, 0, 0, dat)

cfft_c2c_2d ==
  \E nx \in Extents, ny \in Extents, inv \in Flags :
    \E dat \in Buffers(InLen("cfft_c2c_2d", <<nx, ny>>, 1)) :
      Enter("cfft_c2c_2d", <<nx, ny>>, 1, inv, 0, 0, dat)

cfft_r2c_3d ==
  \E nx \in Extents, ny \in Extents, nz \in Extents :
    \E dat \in Buffers(InLen("cfft_r2c_3d", <<nx, ny, nz>>, 1)) :
      Enter("cfft_r2c_3d", <<nx, ny, nz>>, 1, 0, 0, 0, dat)

cfft_c2c_3d ==
  \E nx \in Extents, ny \in Extents, nz \in Extents, inv \in Flags :
    \E dat \in Buffers(InLen("cfft_c2c_3d", <<nx, ny, nz>>, 1)) :
      Enter("cfft_c2c_3d", <<nx, ny, nz>>, 1, inv, 0, 0, dat)

\* *r extents, r = 1..3.
cfft_c2c_xd ==
  \E r \in 1..3, inv \in Flags :
    \E ds \in [1..r -> Extents] :
      \E dat \in Buffers(InLen("cfft_c2c_xd", ds, 1)) :
        Enter("cfft_c2c_xd", ds, 1, inv, 0, 0, dat)

\* ---------------------------------------------------------- the steps
\* data_copy = malloc(...).  The result is not tested: NULL is kept and the
\* routine goes on.  Fresh memory holds indeterminate values.
Malloc ==
  /\ pc = "malloc"
  /\ trace' = Append(trace, <<"malloc", "data_copy">>)
  /\ \/ \E g \in Buffers(MallocCount(fn, dims[1], m)) :
          /\ data_copy' = g
          /\ scratchLen' = MallocCount(fn, dims[1], m)
          /\ allocs' = allocs + 1 /\ liveBufs' = liveBufs + 1
          /\ UNCHANGED allocFailed
     \/ /\ data_copy' = NULL
        /\ allocFailed' = TRUE
        /\ UNCHANGED <<scratchLen, allocs, liveBufs>>
  /\ pc' = Successor("malloc", effort, fn)
  /\ UNCHANGED <<args, data, res, nc, sign, effort, p, i, orig, execIn, execOut,
                 rd, wr, created, destroyed, frees, livePlans>>

\* p = fftw_plan_...(.., buffer, res, .., FFTW_DESTROY_INPUT | effort).  With an
\* effort other than FFTW_ESTIMATE the planner may overwrite the array it is
\* given; given NULL it either faults or (a saved plan) touches nothing.
Plan ==
  /\ pc = "plan"
  /\ LET buf == PlanBuffer(effort)
         arr == IF buf = "data" THEN data ELSE data_copy
     IN /\ trace' = Append(trace, <<"plan", buf>>)
        /\ \/ /\ arr = NULL
              /\ pc' = "crashed"
              /\ UNCHANGED <<p, created, livePlans, data, data_copy>>
           \/ /\ p' = PlanOf(fn, dims, m, buf, sign, effort)
              /\ created' = created + 1 /\ livePlans' = livePlans + 1
              /\ pc' = Successor("plan", effort, fn)
              /\ \E g \in Buffers(Len(arr)) \cup {arr} :
                   /\ (effort = FFTW_ESTIMATE \/ arr = NULL) => g = arr
                   /\ IF buf = "data"
                      THEN data' = g /\ UNCHANGED data_copy
                      ELSE data_copy' = g /\ UNCHANGED data
  /\ UNCHANGED <<args, res, nc, sign, effort, i, orig, execIn, execOut,
                 allocFailed, rd, wr, scratchLen, destroyed, allocs, frees, liveBufs>>

\* memcpy(data_copy, data, count).  A NULL destination, or a count beyond the
\* allocation, faults; elements read beyond the caller's array are
\* indeterminate (or the read faults).
Memcpy ==
  /\ pc = "memcpy"
  /\ LET cnt == MemcpyCount(fn, dims[1], m)
     IN /\ trace' = Append(trace, <<"memcpy", "data_copy">>)
        /\ rd' = cnt /\ wr' = cnt
        /\ \/ /\ data_copy = NULL \/ cnt > Len(data_copy) \/ cnt > Len(data)
              /\ pc' = "crashed"
              /\ UNCHANGED data_copy
           \/ /\ data_copy # NULL /\ cnt <= Len(data_copy)
              /\ \E g \in Buffers(cnt) :
                   data_copy' = [j \in 1..Len(data_copy) |->
                                   IF j > cnt THEN data_copy[j]
                                   ELSE IF j <= Len(data) THEN data[j] ELSE g[j]]
              /\ pc' = Successor("memcpy", effort, fn)
  /\ UNCHANGED <<args, data, res, nc, sign, effort, p, i, orig, execIn, execOut,
                 allocFailed, scratchLen, created, destroyed, allocs, frees,
                 livePlans, liveBufs>>

\* fftw_execute(p): reads the plan's input array, writes res, and (the plan
\* was made with FFTW_DESTROY_INPUT) may overwrite the input array.
Execute ==
  /\ pc = "execute"
  /\ LET arr == IF p.in = "data" THEN data ELSE data_copy
     IN /\ trace' = Append(trace, <<"execute", p.in>>)
        /\ \/ /\ p = NoPlan \/ arr = NULL
              /\ pc' = "crashed"
              /\ UNCHANGED <<execIn, execOut, res, data, data_copy>>
           \/ /\ p # NoPlan /\ arr # NULL
              /\ execIn' = PlanReads(arr, p)
              /\ res' = PlanWrites(arr, res, p, Prod(dims))
              /\ execOut' = res'
              /\ pc' = Successor("execute", effort, fn)
              /\ \E g \in Buffers(Len(arr)) \cup {arr} :
                   IF p.in = "data"
                   THEN data' = g /\ UNCHANGED data_copy
                   ELSE data_copy' = g /\ UNCHANGED data
  /\ UNCHANGED <<args, nc, sign, effort, p, i, orig, allocFailed, rd, wr,
                 scratchLen, created, destroyed, allocs, frees, livePlans, liveBufs>>

\* if(*retHermConj == 1) { for(i=nc; ...
HermTest ==
  /\ pc = "herm"
  /\ IF retHermConj = 1
     THEN i' = nc /\ pc' = "hermloop"
     ELSE pc' = Successor("herm", effort, fn) /\ UNCHANGED i
  /\ UNCHANGED <<args, data, res, nc, sign, effort, data_copy, p, hist,
                 livePlans, liveBufs>>

\* ... i < *n; i++) { res[i] = conj(res[*n - i]); }
HermLoop ==
  /\ pc = "hermloop"
  /\ IF i < dims[1]
     THEN /\ res' = [res EXCEPT ![i + 1] = Conj(res[MirrorIndex(dims[1], i) + 1])]
          /\ i' = i + 1
          /\ UNCHANGED pc
     ELSE /\ pc' = Successor("herm", effort, fn)
          /\ UNCHANGED <<res, i>>
  /\ UNCHANGED <<args, data, nc, sign, effort, data_copy, p, hist,
                 livePlans, liveBufs>>

\* fftw_destroy_plan(p)
DestroyPlan ==
  /\ pc = "destroy"
  /\ trace' = Append(trace, <<"destroy", "p">>)
  /\ p' = NoPlan
  /\ destroyed' = destroyed + 1 /\ livePlans' = livePlans - 1
  /\ pc' = Successor("destroy", effort, fn)
  /\ UNCHANGED <<args, data, res, nc, sign, effort, data_copy, i, orig, execIn,
                 execOut, allocFailed, rd, wr, scratchLen, created, allocs, frees,
                 liveBufs>>

\* if(data_copy != NULL){ free(data_copy); data_copy = NULL; }
Free ==
  /\ pc = "free"
  /\ IF NeedsFree(data_copy)
     THEN /\ trace' = Append(trace, <<"free", "data_copy">>)
          /\ frees' = frees + 1 /\ liveBufs' = liveBufs - 1
          /\ data_copy' = NULL
     ELSE UNCHANGED <<trace, frees, liveBufs, data_copy>>
  /\ pc' = Successor("free", effort, fn)
  /\ UNCHANGED <<args, data, res, nc, sign, effort, p, i, orig, execIn, execOut,
                 allocFailed, rd, wr, scratchLen, created, destroyed, allocs,
                 livePlans>>

\* The closing brace: the locals go, the caller has its arrays back.
Return ==
  /\ pc = "return"
  /\ pc' = "idle"
  /\ fn' = "none" /\ dims' = <<>> /\ m' = 0
  /\ inverse' = 0 /\ fftwplanopt' = 0 /\ retHermConj' = 0
  /\ data' = <<>> /\ res' = <<>>
  /\ nc' = 0 /\ sign' = "none" /\ effort' = "none"
  /\ data_copy' = NULL /\ p' = NoPlan /\ i' = 0
  /\ orig' = <<>> /\ trace' = <<>> /\ execIn' = <<>> /\ execOut' = <<>>
  /\ allocFailed' = FALSE /\ rd' = 0 /\ wr' = 0 /\ scratchLen' = 0
  /\ created' = 0 /\ destroyed' = 0 /\ allocs' = 0 /\ frees' = 0
  /\ UNCHANGED <<livePlans, liveBufs>>

Next ==
  \/ cfft_r2c \/ cfft_c2r \/ cfft_c2c
  \/ cmvfft_r2c \/ cmvfft_c2r \/ cmvfft_c2c
  \/ cfft_r2c_2d \/ cfft_c2c_2d \/ cfft_r2c_3d \/ cfft_c2c_3d \/ cfft_c2c_xd
  \/ Malloc \/ Plan \/ Memcpy \/ Execute \/ HermTest \/ HermLoop
  \/ DestroyPlan \/ Free \/ Return

Spec == Init /\ [][Next]_vars

\* ------------------------------------------------------------- claims
Reached(op) == \E k \in 1..Len(trace) : trace[k][1] = op

ScratchPath == fn \in EffortFns /\ effort # FFTW_ESTIMATE

\* C1: in every routine that takes an effort level, with an effort above
\* FFTW_ESTIMATE, the caller's input array holds at every point of the call
\* what it held at entry, and neither the planner nor the execution is
\* handed the caller's array: both are handed data_copy.
C1_InputUntouched ==
  ScratchPath =>
    /\ data = orig
    /\ \A k \in 1..Len(trace) :
         trace[k][1] \in {"plan", "execute"} => trace[k][2] = "data_copy"

C1_Witness ==
  /\ pc = "return" /\ fn = "cmvfft_c2r" /\ effort = FFTW_PATIENT
  /\ m = 2 /\ Reached("plan") /\ Reached("execute") /\ data = orig

C3_EffortMapping ==
  fn \in EffortFns =>
    /\ effort \in {FFTW_ESTIMATE, FFTW_MEASURE, FFTW_PATIENT, FFTW_EXHAUSTIVE}
    /\ fftwplanopt <= 0 => effort = FFTW_ESTIMATE
    /\ fftwplanopt = 1 => effort = FFTW_MEASURE
    /\ fftwplanopt = 2 => effort = FFTW_PATIENT
    /\ fftwplanopt >= 3 => effort = FFTW_EXHAUSTIVE

C3_Witness ==
  /\ fn = "cfft_r2c" /\ fftwplanopt = 3 /\ effort = FFTW_EXHAUSTIVE
  /\ pc = "malloc"

\* C4: when the allocation of the scratch buffer fails, the routine does not
\* go on to create a plan, to copy, or to execute, and no plan is left alive.
C4_AllocFailureStops ==
  allocFailed =>
    /\ ~Reached("plan") /\ ~Reached("memcpy") /\ ~Reached("execute")
    /\ livePlans = 0

\* C5: what the plan reads at execution is, for every effort code, what it
\* reads at effort FFTW_ESTIMATE: the caller's input as it was at entry.
C5_EffortInvariance ==
  (fn \in EffortFns /\ Reached("execute") /\ pc # "crashed") =>
    execIn = PlanReads(orig, PlanOf(fn, dims, m, "data", sign, FFTW_ESTIMATE))

\* C6: in cmvfft_r2c and cmvfft_c2c with an effort above FFTW_ESTIMATE, the
\* scratch buffer has n*m elements and, when execution starts, all n*m
\* elements of the caller's input have been copied into it.
C6_BatchedCopiesAll ==
  (fn \in {"cmvfft_r2c", "cmvfft_c2c"} /\ effort # FFTW_ESTIMATE /\ pc = "execute") =>
    /\ scratchLen = dims[1] * m
    /\ wr = dims[1] * m
    /\ data_copy = orig

\* C7: with an effort above FFTW_ESTIMATE the calls are made in the order
\* malloc, plan (on data_copy), memcpy (into data_copy), execute (on
\* data_copy), destroy, free; a returning call has made all six.
StepOrder ==
  << <<"malloc", "data_copy">>, <<"plan", "data_copy">>, <<"memcpy", "data_copy">>,
     <<"execute", "data_copy">>, <<"destroy", "p">>, <<"free", "data_copy">> >>

C7_StepOrder ==
  ScratchPath =>
    /\ IsPrefix(trace, StepOrder)
    /\ pc = "return" => trace = StepOrder

C7_Witness ==
  /\ pc = "return" /\ fn = "cmvfft_r2c" /\ effort = FFTW_MEASURE
  /\ trace = StepOrder

\* C8: between calls and at every return no plan and no scratch buffer is
\* alive; a returning call has created one plan and destroyed it once, has
\* allocated a scratch buffer exactly when the effort is above FFTW_ESTIMATE,
\* and has freed it once.
C8_NothingLive ==
  /\ pc \in {"idle", "return"} => livePlans = 0 /\ liveBufs = 0
  /\ created <= 1 /\ destroyed <= created /\ frees <= allocs /\ allocs <= 1
  /\ pc = "return" =>
       /\ created = 1 /\ destroyed = 1
       /\ allocs = (IF effort # FFTW_ESTIMATE THEN 1 ELSE 0)
       /\ frees = allocs

C8_Witness ==
  /\ pc = "return" /\ fn = "cmvfft_c2c" /\ effort = FFTW_EXHAUSTIVE
  /\ allocs = 1 /\ frees = 1 /\ created = 1 /\ destroyed = 1

\* C9, as claimed: in every complex-to-complex routine a non-zero direction
\* flag selects the backward transform and a zero flag the forward one.
C9_NonZeroIsBackward ==
  fn \in InverseFns =>
    /\ inverse # 0 => sign = FFTW_BACKWARD
    /\ inverse = 0 => sign = FFTW_FORWARD

\* C9, amended: in every complex-to-complex routine the flag value 1 selects
\* the backward transform and every other value, zero or not, the forward
\* one; that sign is the one the plan is made with.
C9_OneIsBackward ==
  fn \in InverseFns =>
    /\ inverse = 1 => sign = FFTW_BACKWARD
    /\ inverse # 1 => sign = FFTW_FORWARD
    /\ p # NoPlan => p.sign = sign

C9_Witness ==
  /\ fn = "cfft_c2c_xd" /\ inverse = 2 /\ pc = "destroy"
  /\ p.sign = FFTW_FORWARD

\* C10: in every scratch-copy path the copy reads no more elements than the
\* caller's input holds and writes no more than the scratch buffer holds.
C10_CopyInBounds ==
  (ScratchPath /\ ~allocFailed) =>
    /\ rd <= Len(orig)
    /\ wr <= scratchLen
============================================================================
